---- MODULE Spec2Model ----
(***************************************************************************)
(* Nano Banana API (src/api/main.py): the request handlers, the Generation *)
(* Client they call and the upstream generation endpoint they talk to.     *)
(*                                                                         *)
(* The file holds two revisions of the service.  The first (lines 1-134)   *)
(* defines call_gemini and four handlers on top of it.  The second (lines  *)
(* 136-321) defines seven handlers that call call_nano_banana and          *)
(* b64encode_file and read PROMPTS keys, none of which the file defines;   *)
(* those three are modelled from the specification's sections 4.1-4.3.     *)
(***************************************************************************)
EXTENDS Integers, Sequences, FiniteSets, TLC

(***************************************************************************)
(* Bounds of the model.                                                    *)
(***************************************************************************)
\* the upstream answers "rate limited" to at most this many leading calls
\* of one invocation before it gives its final answer
MaxRateLimited == 3
\* largest number of files uploaded to /merge_images
MaxFiles == 7
\* largest value of the `variations` form field
MaxRequested == 7

(***************************************************************************)
(* Python values.                                                          *)
(***************************************************************************)
\* Python's None, among strings
None == "<None>"

\* a None-only test: what `x is None` would accept
IsNone(x) == x = None

\* `not x` for an Optional[str]: None and the empty string are falsy
Falsy(x) == x = None \/ x = ""

Min(a, b) == IF a < b THEN a ELSE b
Max(a, b) == IF a > b THEN a ELSE b

(***************************************************************************)
(* Image Encoder.                                                          *)
(***************************************************************************)
B64Alphabet ==
    << "A", "B", "C", "D", "E", "F", "G", "H", "I", "J", "K", "L", "M",
       "N", "O", "P", "Q", "R", "S", "T", "U", "V", "W", "X", "Y", "Z",
       "a", "b", "c", "d", "e", "f", "g", "h", "i", "j", "k", "l", "m",
       "n", "o", "p", "q", "r", "s", "t", "u", "v", "w", "x", "y", "z",
       "0", "1", "2", "3", "4", "5", "6", "7", "8", "9", "+", "/" >>

B64Char(n) == B64Alphabet[n + 1]

\* base64.b64encode(data).decode('utf-8') of a sequence of bytes
RECURSIVE b64encode(_)
b64encode(bs) ==
    IF Len(bs) = 0 THEN ""
    ELSE IF Len(bs) = 1 THEN
        B64Char(bs[1] \div 4) \o B64Char((bs[1] % 4) * 16) \o "=="
    ELSE IF Len(bs) = 2 THEN
        B64Char(bs[1] \div 4)
            \o B64Char((bs[1] % 4) * 16 + (bs[2] \div 16))
            \o B64Char((bs[2] % 16) * 4) \o "="
    ELSE
        B64Char(bs[1] \div 4)
            \o B64Char((bs[1] % 4) * 16 + (bs[2] \div 16))
            \o B64Char((bs[2] % 16) * 4 + (bs[3] \div 64))
            \o B64Char(bs[3] % 64)
            \o b64encode(SubSeq(bs, 4, Len(bs)))

\* the uploads a caller may send: content bytes and a declared content type
UploadFiles ==
    { [bytes |-> <<77>>, content_type |-> "image/jpeg"],
      [bytes |-> <<137, 80, 78, 71>>, content_type |-> None] }

\* encode_image(file): (base64 text, declared type or "image/png")
encode_image(file) ==
    << b64encode(file.bytes),
       IF Falsy(file.content_type) THEN "image/png" ELSE file.content_type >>

\* b64encode_file(file) of the second revision (specification section 4.1)
b64encode_file(file) ==
    << b64encode(file.bytes),
       IF Falsy(file.content_type) THEN "image/png" ELSE file.content_type >>

\* {"data": ..., "mime": ...} of one encoded upload (first revision)
ImageDict(file) ==
    [data |-> encode_image(file)[1], mime |-> encode_image(file)[2]]

\* {'data': ..., 'mime': ...} of one encoded upload (second revision)
ImageDict2(file) ==
    [data |-> b64encode_file(file)[1], mime |-> b64encode_file(file)[2]]

(***************************************************************************)
(* The upstream endpoint.  One answer to requests.post is: an exception    *)
(* raised by the call (post_exc), or a status code with a raw body (text)  *)
(* whose json() either raises (json_exc) or yields the candidates.         *)
(***************************************************************************)
TextPart == [text |-> "here is your image"]

\* a response part carrying inline image data; mimeType None: key absent
InlinePart(d, m) == [inlineData |-> [data |-> d, mimeType |-> m]]

Candidate(ps) == [content |-> [parts |-> ps]]

\* a candidate without a 'content' key
BareCandidate == [finishReason |-> "SAFETY"]

HttpAnswer(code, body, exc, cands) ==
    [post_exc |-> None, status_code |-> code, text |-> body,
     json_exc |-> exc, json_msg |-> IF exc = None THEN None ELSE "Expecting value",
     candidates |-> cands]

NetworkFault(msg) ==
    [post_exc |-> msg, status_code |-> 0, text |-> None,
     json_exc |-> None, json_msg |-> None, candidates |-> <<>>]

RateLimited == HttpAnswer(429, "quota exceeded", None, <<>>)

\* success: second part of the first candidate is the first inline image
OkJpeg ==
    HttpAnswer(200, "{...}", None,
        << Candidate(<< TextPart, InlinePart("SlBFRw==", "image/jpeg"),
                        InlinePart("UE5H", "image/png") >>),
           Candidate(<< InlinePart("V0VCUA==", "image/webp") >>) >>)

\* success: the inline part declares no media type
OkNoMime ==
    HttpAnswer(200, "{...}", None,
        << Candidate(<< InlinePart("UE5H", None) >>) >>)

\* only the second candidate carries an image
ImageInSecondCandidate ==
    HttpAnswer(200, "{...}", None,
        << Candidate(<< TextPart >>),
           Candidate(<< InlinePart("V0VCUA==", "image/webp") >>) >>)

NoContentCandidate == HttpAnswer(200, "{...}", None, << BareCandidate >>)

NoCandidates == HttpAnswer(200, "{}", None, <<>>)

\* json() raises: requests' JSONDecodeError is a RequestException since
\* requests 2.27 and a plain ValueError before
MalformedNew == HttpAnswer(200, "<html>", "RequestException", <<>>)
MalformedOld == HttpAnswer(200, "<html>", "Exception", <<>>)

ServerError == HttpAnswer(500, "internal error", None, <<>>)
Forbidden == HttpAnswer(403, "API key not valid", None, <<>>)

Timeout == NetworkFault("Read timed out")
ConnectionError == NetworkFault("Connection refused")

FinalAnswers ==
    { RateLimited, OkJpeg, OkNoMime, ImageInSecondCandidate, NoContentCandidate,
      NoCandidates, MalformedNew, MalformedOld, ServerError, Forbidden,
      Timeout, ConnectionError }

\* how the upstream behaves during one invocation of the client: it answers
\* "rate limited" to the first k calls and `final` to every later call
Doubles == [k : 0..MaxRateLimited, final : FinalAnswers]

\* the upstream behaviours explored for each variant of a batch operation:
\* no or the most rate limiting, then one of two successes or three failures
BatchDoubles ==
    [k : {0, MaxRateLimited},
     final : { RateLimited, OkJpeg, OkNoMime, ServerError, Timeout }]

\* the answer to call number n (from 0) of an invocation
Answer(dbl, n) == IF n < dbl.k THEN RateLimited ELSE dbl.final

(***************************************************************************)
(* Generation Client, first revision: call_gemini.                         *)
(***************************************************************************)
\* parts / payload built from the prompt and the images
Payload(prompt, images) ==
    [contents |->
        << [parts |-> << [text |-> prompt] >> \o
              [j \in 1..Len(images) |->
                  [inlineData |-> [data |-> images[j].data,
                                   mimeType |-> images[j].mime]]]] >>]

\* candidates[0].get('content', {}).get('parts', [])
PartsOut(candidate) ==
    IF "content" \in DOMAIN candidate THEN candidate.content.parts ELSE <<>>

\* the loop over parts_out and the return after it
RECURSIVE ScanParts(_)
ScanParts(parts) ==
    IF parts = <<>> THEN << None, "No image in response" >>
    ELSE IF "inlineData" \in DOMAIN Head(parts)
         THEN << Head(parts).inlineData.data,
                 IF Head(parts).inlineData.mimeType = None
                 THEN "image/png" ELSE Head(parts).inlineData.mimeType >>
         ELSE ScanParts(Tail(parts))

\* a client that lets a raised exception through with no reason text
call_gemini_nocatch(resp) ==
    IF resp.post_exc # None THEN << None, "" >>
    ELSE IF resp.status_code # 200
         THEN << None, "API Error: " \o ToString(resp.status_code) >>
    ELSE IF resp.json_exc # None THEN << None, "" >>
    ELSE IF resp.candidates = <<>> THEN << None, "No response from API" >>
    ELSE ScanParts(PartsOut(resp.candidates[1]))

\* a client that surfaces the raw body of a failed call
call_gemini_rawbody(resp) ==
    IF resp.post_exc # None THEN << None, "Request failed: " \o resp.post_exc >>
    ELSE IF resp.status_code # 200 THEN << None, resp.text >>
    ELSE IF resp.json_exc = "RequestException"
         THEN << None, "Request failed: " \o resp.json_msg >>
    ELSE IF resp.json_exc = "Exception"
         THEN << None, "Error: " \o resp.json_msg >>
    ELSE IF resp.candidates = <<>> THEN << None, "No response from API" >>
    ELSE ScanParts(PartsOut(resp.candidates[1]))

\* a client that takes the last inline part of the last candidate
RECURSIVE ScanPartsLast(_)
ScanPartsLast(parts) ==
    IF parts = <<>> THEN << None, "No image in response" >>
    ELSE IF "inlineData" \in DOMAIN parts[Len(parts)]
         THEN << parts[Len(parts)].inlineData.data,
                 IF parts[Len(parts)].inlineData.mimeType = None
                 THEN "image/png" ELSE parts[Len(parts)].inlineData.mimeType >>
         ELSE ScanPartsLast(SubSeq(parts, 1, Len(parts) - 1))

call_gemini_lastpart(resp) ==
    IF resp.post_exc # None THEN << None, "Request failed: " \o resp.post_exc >>
    ELSE IF resp.status_code # 200
         THEN << None, "API Error: " \o ToString(resp.status_code) >>
    ELSE IF resp.json_exc = "RequestException"
         THEN << None, "Request failed: " \o resp.json_msg >>
    ELSE IF resp.json_exc = "Exception"
         THEN << None, "Error: " \o resp.json_msg >>
    ELSE IF resp.candidates = <<>> THEN << None, "No response from API" >>
    ELSE ScanPartsLast(PartsOut(resp.candidates[Len(resp.candidates)]))

\* call_gemini's result for the answer of its one requests.post:
\* (image data, media type) or (None, reason)
call_gemini(resp) ==
    IF resp.post_exc # None THEN << None, "Request failed: " \o resp.post_exc >>
    ELSE IF resp.status_code # 200
         THEN << None, "API Error: " \o ToString(resp.status_code) >>
    ELSE IF resp.json_exc = "RequestException"
         THEN << None, "Request failed: " \o resp.json_msg >>
    ELSE IF resp.json_exc = "Exception"
         THEN << None, "Error: " \o resp.json_msg >>
    ELSE IF resp.candidates = <<>> THEN << None, "No response from API" >>
    ELSE ScanParts(PartsOut(resp.candidates[1]))

(***************************************************************************)
(* Generation Client, second revision: call_nano_banana (specification     *)
(* section 4.3; its definition is not part of the file).                   *)
(***************************************************************************)
\* fixed maximum retry count
Retries == 3

\* a rate-limited answer is retried while retries remain
ShouldRetry(resp, attempt) ==
    resp.post_exc = None /\ resp.status_code = 429 /\ attempt < Retries

\* the result once the client stops calling
call_nano_banana(resp) ==
    IF resp.post_exc # None THEN << None, "Request failed: " \o resp.post_exc >>
    ELSE IF resp.status_code # 200 THEN << None, resp.text >>
    ELSE IF resp.json_exc # None
         THEN << None, "Malformed response: " \o resp.json_msg >>
    ELSE IF resp.candidates = <<>> THEN << None, "No image returned" >>
    ELSE IF ScanParts(PartsOut(resp.candidates[1]))[1] = None
         THEN << None, "No image returned" >>
    ELSE ScanParts(PartsOut(resp.candidates[1]))

(***************************************************************************)
(* Prompt Composer.                                                        *)
(***************************************************************************)
\* PROMPTS of the first revision
PROMPTS ==
    [generate |-> "Generate a high-quality image based on this prompt:",
     edit |-> "Edit this image according to the instructions:",
     virtual_try_on |-> "Create a realistic virtual try-on combining these images:",
     restore |-> "Restore this old or damaged image:"]

\* the prompt tables the second revision reads (specification section 4.2:
\* one or more canned instructions per operation; the texts are not given)
PROMPTS2 ==
    [generate_image |-> << "<generate_image 0>", "<generate_image 1>" >>,
     edit_image |-> << "<edit_image 0>", "<edit_image 1>" >>,
     virtual_try_on |-> << "<virtual_try_on 0>", "<virtual_try_on 1>" >>,
     create_ads |-> << "<create_ads 0>", "<create_ads 1>" >>,
     merge_images |-> << "<merge_images 0>", "<merge_images 1>" >>,
     generate_scenes |-> << "<generate_scenes 0>", "<generate_scenes 1>" >>,
     restore_old_image |-> << "<restore_old_image 0>", "<restore_old_image 1>" >>]

\* random.choice(table)
Choices(table) == { table[j] : j \in 1..Len(table) }

\* the api_key values a caller may pass (None: the field is absent)
ApiKeys == { None, "", "AIza-key" }

\* the free texts a caller may pass
Prompts == { "", "a cat " }

\* str.strip() on the free texts above
Strip(s) == IF s = "a cat " THEN "a cat" ELSE s

\* f"{system} {prompt}".strip(), for a system text without outer blanks
\* and a free text without leading blanks
JoinStrip(system, prompt) ==
    IF Strip(prompt) = "" THEN system ELSE system \o " " \o Strip(prompt)

\* full_prompt = system_prompt; if prompt: full_prompt += " " + prompt
JoinIf(system, prompt) ==
    IF Falsy(prompt) THEN system ELSE system \o " " \o prompt

\* base_hints of create_ads
AdHints == << "lifestyle angle", "dramatic lighting", "portrait social feed style" >>

\* base_hints of generate_scenes
SceneHints == << "wide cinematic extension", "dawn atmosphere", "midday clarity" >>

\* the prompt of variant n (from 0) of a batch operation
VariantPrompt(system, hints, n, prompt) ==
    LET hint == hints[(n % Len(hints)) + 1]
        base == system \o " Variation " \o ToString(n + 1) \o ": " \o hint \o "."
    IN  IF Falsy(prompt) THEN base ELSE base \o " User: " \o Strip(prompt)

(***************************************************************************)
(* Variant Orchestrator: the number of variants and the collected results. *)
(***************************************************************************)
MAX_AD_VARIATIONS == 3
MAX_SCENE_VARIATIONS == 3

\* the `variations` form field: {} when unset (None), else {v}
Variations == { {} } \cup { {v} : v \in (0 - 1)..MaxRequested }

ValueOf(variations) == CHOOSE v \in variations : TRUE

\* target of create_ads: `variations or MAX_AD_VARIATIONS`, then the clamp
AdsTarget(variations) ==
    LET t == IF variations = {} \/ ValueOf(variations) = 0
             THEN MAX_AD_VARIATIONS ELSE ValueOf(variations)
    IN  Max(1, Min(t, 3))

\* range(min(target, 3)) of generate_scenes, with target = 3
ScenesTarget(variations) == Min(3, 3)

\* a collector that puts a new success in front
CollectFront(res, r) ==
    IF ~Falsy(r[1]) THEN << [image |-> r[1], mime |-> r[2]] >> \o res ELSE res

\* if img_b64: results.append({'image': img_b64, 'mime': out_mime})
Collect(res, r) ==
    IF ~Falsy(r[1]) THEN Append(res, [image |-> r[1], mime |-> r[2]]) ELSE res

\* results[:3] when len(results) > 3
Truncate(res) == IF Len(res) > 3 THEN SubSeq(res, 1, 3) ELSE res

\* forwarding every uploaded file
AllFiles(files) == files

\* files[:5] of merge_images
FirstFive(files) == SubSeq(files, 1, Min(Len(files), 5))

\* the uploads of one /merge_images request: 1..MaxFiles files
MergeUploads == UNION { [1..n -> UploadFiles] : n \in 1..MaxFiles }

(***************************************************************************)
(* State: one request being served.                                        *)
(***************************************************************************)
VARIABLES
    pc,         \* "idle", "call_gemini", "call_nano_banana", "return", "done"
    req,        \* the request: handler, api_key, prompt, files, variations
    double,     \* the upstream's behaviour during the current invocation
    inv,        \* arguments of the current client invocation
    calls,      \* upstream calls made by the current invocation
    attempt,    \* retries made by the current invocation
    netCalls,   \* upstream calls made while serving the request
    payload,    \* the last payload posted upstream
    result,     \* the client's last return value: (data, mime) or (None, reason)
    target,     \* number of variants of a batch operation
    i,          \* loop index of a batch operation
    results,    \* `results` of a batch operation
    attempted,  \* variant indices for which the client was invoked, in order
    outcomes,   \* the client's return values, in invocation order
    response    \* the HTTP response: status_code and body

vars == << pc, req, double, inv, calls, attempt, netCalls, payload, result,
           target, i, results, attempted, outcomes, response >>

NoReq == [handler |-> None, api_key |-> None, prompt |-> None,
          files |-> <<>>, variations |-> {}]
NoInv == [api_key |-> None, prompt |-> None, images |-> <<>>]
NoResponse == [status_code |-> 0, body |-> [pending |-> TRUE]]

Init ==
    /\ pc = "idle"
    /\ req = NoReq
    /\ double = [k |-> 0, final |-> NoCandidates]
    /\ inv = NoInv
    /\ calls = 0
    /\ attempt = 0
    /\ netCalls = 0
    /\ payload = [contents |-> <<>>]
    /\ result = << None, None >>
    /\ target = 0
    /\ i = 0
    /\ results = <<>>
    /\ attempted = <<>>
    /\ outcomes = <<>>
    /\ response = NoResponse

Request(h, api_key, prompt, files, variations) ==
    [handler |-> h, api_key |-> api_key, prompt |-> prompt,
     files |-> files, variations |-> variations]

\* raise HTTPException(status_code=400, detail=...)
Reject(detail) ==
    /\ response' = [status_code |-> 400, body |-> [detail |-> detail]]
    /\ pc' = "done"
    /\ UNCHANGED << double, inv, calls, attempt, netCalls, payload, result,
                    target, i, results, attempted, outcomes >>

\* the call statement: control enters the client with these arguments
Invoke(client, api_key, full_prompt, images, dbl) ==
    /\ inv' = [api_key |-> api_key, prompt |-> full_prompt, images |-> images]
    /\ double' = dbl
    /\ calls' = 0
    /\ attempt' = 0
    /\ pc' = client

\* a single-image handler calls the client
InvokeSingle(client, api_key, full_prompt, images, dbl) ==
    /\ Invoke(client, api_key, full_prompt, images, dbl)
    /\ UNCHANGED << netCalls, payload, result, target, i, results, attempted,
                    outcomes, response >>

\* if img_data: return {"image": img_data, "mime": "image/png"}
\* return JSONResponse({"error": error}, status_code=500)
ReplyFirst ==
    /\ response' =
          IF ~Falsy(result[1])
          THEN [status_code |-> 200,
                body |-> [image |-> result[1], mime |-> "image/png"]]
          ELSE [status_code |-> 500, body |-> [error |-> result[2]]]
    /\ pc' = "done"
    /\ UNCHANGED << req, double, inv, calls, attempt, netCalls, payload, result,
                    target, i, results, attempted, outcomes >>

\* if img_b64: return JSONResponse({"image": img_b64, "mime": out_mime})
\* return JSONResponse({"error": out_mime}, status_code=500)
ReplySecond ==
    /\ response' =
          IF ~Falsy(result[1])
          THEN [status_code |-> 200,
                body |-> [image |-> result[1], mime |-> result[2]]]
          ELSE [status_code |-> 500, body |-> [error |-> result[2]]]
    /\ pc' = "done"
    /\ UNCHANGED << req, double, inv, calls, attempt, netCalls, payload, result,
                    target, i, results, attempted, outcomes >>

(***************************************************************************)
(* The clients' upstream calls.                                            *)
(***************************************************************************)
\* call_gemini: one requests.post, then the result
gemini_post ==
    /\ pc = "call_gemini"
    /\ payload' = Payload(inv.prompt, inv.images)
    /\ netCalls' = netCalls + 1
    /\ calls' = calls + 1
    /\ result' = call_gemini(Answer(double, calls))
    /\ outcomes' = Append(outcomes, result')
    /\ pc' = "return"
    /\ UNCHANGED << req, double, inv, attempt, target, i, results, attempted,
                    response >>

\* call_nano_banana: one upstream call; a rate-limited answer is retried
nano_post ==
    /\ pc = "call_nano_banana"
    /\ payload' = Payload(inv.prompt, inv.images)
    /\ netCalls' = netCalls + 1
    /\ calls' = calls + 1
    /\ IF ShouldRetry(Answer(double, calls), attempt)
       THEN /\ attempt' = attempt + 1
            /\ UNCHANGED << pc, result, outcomes >>
       ELSE /\ result' = call_nano_banana(Answer(double, calls))
            /\ outcomes' = Append(outcomes, result')
            /\ pc' = "return"
            /\ UNCHANGED attempt
    /\ UNCHANGED << req, double, inv, target, i, results, attempted, response >>

(***************************************************************************)
(* Handlers of the first revision (call_gemini).                           *)
(***************************************************************************)
\* POST /generate
generate_image ==
    \/ /\ pc = "idle"
       /\ \E api_key \in ApiKeys, prompt \in Prompts, dbl \in Doubles :
          /\ req' = Request("generate_image", api_key, prompt, <<>>, {})
          /\ IF Falsy(api_key) \/ Falsy(prompt)
             THEN Reject("API key and prompt required")
             ELSE InvokeSingle("call_gemini", api_key,
                               PROMPTS.generate \o " " \o prompt, <<>>, dbl)
    \/ /\ pc = "return"
       /\ req.handler = "generate_image"
       /\ ReplyFirst

\* POST /edit
edit_image ==
    \/ /\ pc = "idle"
       /\ \E api_key \in ApiKeys, prompt \in Prompts, file \in UploadFiles,
          dbl \in Doubles :
          /\ req' = Request("edit_image", api_key, prompt, << file >>, {})
          /\ IF Falsy(api_key) \/ Falsy(prompt)
             THEN Reject("API key and prompt required")
             ELSE InvokeSingle("call_gemini", api_key,
                               PROMPTS.edit \o " " \o prompt,
                               << ImageDict(file) >>, dbl)
    \/ /\ pc = "return"
       /\ req.handler = "edit_image"
       /\ ReplyFirst

\* POST /virtual_try_on
virtual_try_on ==
    \/ /\ pc = "idle"
       /\ \E api_key \in ApiKeys, prompt \in Prompts, product \in UploadFiles,
          person \in UploadFiles, dbl \in Doubles :
          /\ req' = Request("virtual_try_on", api_key, prompt,
                            << product, person >>, {})
          /\ IF Falsy(api_key)
             THEN Reject("API key required")
             ELSE InvokeSingle("call_gemini", api_key,
                               JoinStrip(PROMPTS.virtual_try_on, prompt),
                               << ImageDict(product), ImageDict(person) >>, dbl)
    \/ /\ pc = "return"
       /\ req.handler = "virtual_try_on"
       /\ ReplyFirst

\* POST /restore_old_image
restore_image ==
    \/ /\ pc = "idle"
       /\ \E api_key \in ApiKeys, prompt \in Prompts, file \in UploadFiles,
          dbl \in Doubles :
          /\ req' = Request("restore_image", api_key, prompt, << file >>, {})
          /\ IF Falsy(api_key)
             THEN Reject("API key required")
             ELSE InvokeSingle("call_gemini", api_key,
                               JoinStrip(PROMPTS.restore, prompt),
                               << ImageDict(file) >>, dbl)
    \/ /\ pc = "return"
       /\ req.handler = "restore_image"
       /\ ReplyFirst

(***************************************************************************)
(* Handlers of the second revision (call_nano_banana).                     *)
(***************************************************************************)
\* POST /generate
generate_image_r2 ==
    \/ /\ pc = "idle"
       /\ \E api_key \in ApiKeys, prompt \in Prompts, dbl \in Doubles,
          system_prompt \in Choices(PROMPTS2.generate_image) :
          /\ req' = Request("generate_image_r2", api_key, prompt, <<>>, {})
          /\ IF Falsy(api_key)
             THEN Reject("API key is required")
             ELSE InvokeSingle("call_nano_banana", api_key,
                               system_prompt \o " " \o prompt, <<>>, dbl)
    \/ /\ pc = "return"
       /\ req.handler = "generate_image_r2"
       /\ ReplySecond

\* POST /edit
edit_image_r2 ==
    \/ /\ pc = "idle"
       /\ \E api_key \in ApiKeys, prompt \in Prompts, file \in UploadFiles,
          dbl \in Doubles, system_prompt \in Choices(PROMPTS2.edit_image) :
          /\ req' = Request("edit_image_r2", api_key, prompt, << file >>, {})
          /\ IF Falsy(api_key)
             THEN Reject("API key is required")
             ELSE InvokeSingle("call_nano_banana", api_key,
                               system_prompt \o " " \o prompt,
                               << ImageDict2(file) >>, dbl)
    \/ /\ pc = "return"
       /\ req.handler = "edit_image_r2"
       /\ ReplySecond

\* POST /virtual_try_on
virtual_try_on_r2 ==
    \/ /\ pc = "idle"
       /\ \E api_key \in ApiKeys, prompt \in Prompts, product \in UploadFiles,
          person \in UploadFiles, dbl \in Doubles,
          system_prompt \in Choices(PROMPTS2.virtual_try_on) :
          /\ req' = Request("virtual_try_on_r2", api_key, prompt,
                            << product, person >>, {})
          /\ IF Falsy(api_key)
             THEN Reject("API key is required")
             ELSE InvokeSingle("call_nano_banana", api_key,
                               JoinIf(system_prompt, prompt),
                               << ImageDict2(product), ImageDict2(person) >>, dbl)
    \/ /\ pc = "return"
       /\ req.handler = "virtual_try_on_r2"
       /\ ReplySecond

\* POST /merge_images
merge_images ==
    \/ /\ pc = "idle"
       /\ \E api_key \in ApiKeys, prompt \in Prompts, files \in MergeUploads,
          dbl \in Doubles, system_prompt \in Choices(PROMPTS2.merge_images) :
          /\ req' = Request("merge_images", api_key, prompt, files, {})
          /\ IF Falsy(api_key)
             THEN Reject("API key is required")
             ELSE InvokeSingle("call_nano_banana", api_key,
                               JoinIf(system_prompt, prompt),
                               [j \in 1..Len(FirstFive(files)) |->
                                   ImageDict2(FirstFive(files)[j])], dbl)
    \/ /\ pc = "return"
       /\ req.handler = "merge_images"
       /\ ReplySecond

\* POST /restore_old_image
restore_old_image ==
    \/ /\ pc = "idle"
       /\ \E api_key \in ApiKeys, prompt \in Prompts, file \in UploadFiles,
          dbl \in Doubles, system_prompt \in Choices(PROMPTS2.restore_old_image) :
          /\ req' = Request("restore_old_image", api_key, prompt, << file >>, {})
          /\ IF Falsy(api_key)
             THEN Reject("API key is required")
             ELSE InvokeSingle("call_nano_banana", api_key,
                               JoinIf(system_prompt, prompt),
                               << ImageDict2(file) >>, dbl)
    \/ /\ pc = "return"
       /\ req.handler = "restore_old_image"
       /\ ReplySecond

(***************************************************************************)
(* Batch operations.                                                       *)
(***************************************************************************)
\* entry of the loop `for i in range(target)`: target >= 1, so variant 0
\* is invoked
BatchBegin(api_key, system, hints, prompt, images, count, dbl) ==
    /\ target' = count
    /\ i' = 0
    /\ results' = <<>>
    /\ attempted' = << 0 >>
    /\ Invoke("call_nano_banana", api_key,
              VariantPrompt(system, hints, 0, prompt), images, dbl)
    /\ UNCHANGED << netCalls, payload, result, outcomes, response >>

\* the rest of one loop iteration after the client returned, then either
\* the next iteration's call or the response
BatchStep(system, hints, dbl) ==
    /\ results' = Collect(results, result)
    /\ IF i + 1 < target
       THEN /\ i' = i + 1
            /\ attempted' = Append(attempted, i + 1)
            /\ Invoke("call_nano_banana", inv.api_key,
                      VariantPrompt(system, hints, i + 1, req.prompt),
                      inv.images, dbl)
            /\ UNCHANGED response
       ELSE /\ response' = [status_code |-> 200,
                            body |-> [results |-> Truncate(results')]]
            /\ pc' = "done"
            /\ UNCHANGED << i, attempted, inv, double, calls, attempt >>
    /\ UNCHANGED << req, netCalls, payload, result, target, outcomes >>

\* POST /create_ads
create_ads ==
    \/ /\ pc = "idle"
       /\ \E api_key \in ApiKeys, prompt \in Prompts, model \in UploadFiles,
          product \in UploadFiles, variations \in Variations,
          dbl \in BatchDoubles :
          /\ req' = Request("create_ads", api_key, prompt,
                            << model, product >>, variations)
          /\ IF Falsy(api_key)
             THEN Reject("API key is required")
             ELSE BatchBegin(api_key, PROMPTS2.create_ads[1], AdHints, prompt,
                             << ImageDict2(model), ImageDict2(product) >>,
                             AdsTarget(variations), dbl)
    \/ /\ pc = "return"
       /\ \E dbl \in BatchDoubles :
          /\ req.handler = "create_ads"
          /\ BatchStep(PROMPTS2.create_ads[1], AdHints, dbl)

\* POST /generate_scenes
generate_scenes ==
    \/ /\ pc = "idle"
       /\ \E api_key \in ApiKeys, prompt \in Prompts, scene \in UploadFiles,
          variations \in Variations, dbl \in BatchDoubles :
          /\ req' = Request("generate_scenes", api_key, prompt,
                            << scene >>, variations)
          /\ IF Falsy(api_key)
             THEN Reject("API key is required")
             ELSE BatchBegin(api_key, PROMPTS2.generate_scenes[1], SceneHints,
                             prompt, << ImageDict2(scene) >>,
                             ScenesTarget(variations), dbl)
    \/ /\ pc = "return"
       /\ \E dbl \in BatchDoubles :
          /\ req.handler = "generate_scenes"
          /\ BatchStep(PROMPTS2.generate_scenes[1], SceneHints, dbl)

Next ==
    \/ generate_image
    \/ edit_image
    \/ virtual_try_on
    \/ restore_image
    \/ generate_image_r2
    \/ edit_image_r2
    \/ virtual_try_on_r2
    \/ create_ads
    \/ merge_images
    \/ generate_scenes
    \/ restore_old_image
    \/ gemini_post
    \/ nano_post

Spec == Init /\ [][Next]_vars

(***************************************************************************)
(* Properties.                                                             *)
(***************************************************************************)
FirstRevision ==
    req.handler \in { "generate_image", "edit_image", "virtual_try_on",
                      "restore_image" }

SingleImage ==
    req.handler \in { "generate_image", "edit_image", "virtual_try_on",
                      "restore_image", "generate_image_r2", "edit_image_r2",
                      "virtual_try_on_r2", "restore_old_image", "merge_images" }

Batch == req.handler \in { "create_ads", "generate_scenes" }

\* the client has returned to its caller
Returned == pc \in { "return", "done" } /\ calls > 0

\* the upstream's answer to the last call of the current invocation
LastAnswer == Answer(double, calls - 1)

IsInline(part) == "inlineData" \in DOMAIN part

\* the parts of the first candidate of a success answer
FirstParts(resp) ==
    IF Len(resp.candidates) = 0 THEN <<>>
    ELSE IF "content" \in DOMAIN resp.candidates[1]
         THEN resp.candidates[1].content.parts ELSE <<>>

Parsed(resp) ==
    resp.post_exc = None /\ resp.status_code = 200 /\ resp.json_exc = None

\* the answer is a success whose first candidate carries an inline image
HasInlineImage(resp) ==
    Parsed(resp) /\ \E j \in 1..Len(FirstParts(resp)) : IsInline(FirstParts(resp)[j])

\* the first inline-image part of the first candidate
FirstInline(resp) ==
    LET ps == FirstParts(resp)
        j  == CHOOSE n \in 1..Len(ps) :
                 IsInline(ps[n]) /\ \A m \in 1..(n - 1) : ~IsInline(ps[m])
    IN  ps[j].inlineData

MediaTypes == { "image/png", "image/jpeg", "image/webp" }

\* C1: for every k < retries, when the upstream answers "rate limited" to
\* the first k calls of one call_gemini invocation and a success with an
\* inline image to the next, the invocation returns that success and has
\* made exactly k+1 upstream calls.
C1_RetryThenSuccess ==
    (Returned /\ FirstRevision /\ double.k < Retries /\ HasInlineImage(double.final))
        => /\ result[1] = FirstInline(double.final).data
           /\ calls = double.k + 1

\* C2: when the upstream answers "rate limited" to every call, one
\* call_gemini invocation ends after exactly retries+1 = 4 upstream calls
\* with a failure result.
C2_ExhaustedRetries ==
    (Returned /\ FirstRevision /\ double.final = RateLimited)
        => /\ calls = Retries + 1
           /\ result[1] = None

\* the one answer call_gemini saw is a non-success status other than 429
OtherFailure ==
    /\ Returned
    /\ FirstRevision
    /\ LastAnswer.post_exc = None
    /\ LastAnswer.status_code \notin { 200, 429 }

\* C3 as stated: on a non-success status other than "rate limited" the
\* invocation makes exactly one upstream call, does not retry, and returns
\* the raw upstream response body as the failure reason.
C3_RawBodyReason ==
    OtherFailure
        => /\ calls = 1
           /\ netCalls = 1
           /\ result = << None, LastAnswer.text >>

\* C3 as amended: on a non-success status other than "rate limited" the
\* invocation makes exactly one upstream call, does not retry, and returns
\* as the failure reason the text "API Error: " followed by the status code.
C3_StatusReason ==
    OtherFailure
        => /\ calls = 1
           /\ netCalls = 1
           /\ result[1] = None
           /\ (LastAnswer.status_code = 500 => result[2] = "API Error: 500")
           /\ (LastAnswer.status_code = 403 => result[2] = "API Error: 403")
           /\ result[2] \in { "API Error: 500", "API Error: 403" }

C3_Witness ==
    /\ pc = "done"
    /\ OtherFailure
    /\ LastAnswer = ServerError
    /\ result = << None, "API Error: 500" >>
    /\ response.status_code = 500

\* the clamp of a requested count to [1,3], 3 when unset
Clamped(variations) ==
    IF variations = {} THEN 3
    ELSE LET v == CHOOSE x \in variations : TRUE
         IN  IF v < 1 THEN 1 ELSE IF v > 3 THEN 3 ELSE v

\* C4: the number of variants a batch operation attempts is the requested
\* count clamped to [1,3]: below 1 gives 1, above 3 gives 3, values in
\* [1,3] are kept, unset gives 3.
C4_ClampedCount ==
    (pc = "done" /\ Batch /\ response.status_code = 200)
        => Len(attempted) = Clamped(req.variations)

IsSuccess(r) == r[1] # None

AsResult(r) == [image |-> r[1], mime |-> r[2]]

\* C5: a batch operation attempts every variant index 0..count-1 in
\* increasing order even after failures, and returns exactly the successful
\* variants in the order their index was attempted: at most count and never
\* more than 3 results, and exactly one when 2 of 3 variants fail.
C5_BatchResults ==
    /\ (Batch /\ pc # "done" /\ ~Falsy(req.api_key))
          => /\ attempted = [j \in 1..(i + 1) |-> j - 1]
             /\ i < target
    /\ (Batch /\ pc = "done" /\ ~Falsy(req.api_key))
          => LET wins == SelectSeq(outcomes, IsSuccess)
             IN  /\ attempted = [j \in 1..target |-> j - 1]
                 /\ Len(outcomes) = target
                 /\ response.status_code = 200
                 /\ response.body.results = [j \in 1..Len(wins) |-> AsResult(wins[j])]
                 /\ Len(response.body.results) <= target
                 /\ Len(response.body.results) <= 3
                 /\ (target = 3 /\ Len(wins) = 1)
                       => Len(response.body.results) = 1

C5_Witness ==
    /\ pc = "done"
    /\ req.handler = "create_ads"
    /\ target = 3
    /\ ~IsSuccess(outcomes[1])
    /\ IsSuccess(outcomes[2])
    /\ ~IsSuccess(outcomes[3])
    /\ response.body.results = << AsResult(outcomes[2]) >>

\* C6: on every endpoint a request with a missing or empty api key ends in
\* a 400 response, and no upstream call is made while it is handled.
C6_NoKeyNoCall ==
    (pc # "idle" /\ (req.api_key = None \/ req.api_key = ""))
        => /\ pc = "done"
           /\ response.status_code = 400
           /\ netCalls = 0
           /\ payload = [contents |-> <<>>]

C6_Witness ==
    /\ pc = "done"
    /\ req.handler = "merge_images"
    /\ req.api_key = ""
    /\ response.status_code = 400
    /\ netCalls = 0

\* C7: for /merge_images with n uploaded files the client receives exactly
\* the first min(n,5) files in upload order, and so does the upstream.
C7_FirstFiveForwarded ==
    (req.handler = "merge_images" /\ pc \in { "call_nano_banana", "return", "done" }
                                  /\ ~Falsy(req.api_key))
        => LET n == IF Len(req.files) < 5 THEN Len(req.files) ELSE 5
               sent == [j \in 1..n |-> ImageDict2(req.files[j])]
           IN  /\ inv.images = sent
               /\ netCalls > 0 =>
                    /\ Len(payload.contents[1].parts) = n + 1
                    /\ \A j \in 1..n :
                          payload.contents[1].parts[j + 1].inlineData.data
                              = sent[j].data

C7_Witness ==
    /\ req.handler = "merge_images"
    /\ pc = "done"
    /\ Len(req.files) = 7
    /\ Len(inv.images) = 5
    /\ netCalls > 0
    /\ req.files[1] # req.files[2]

\* C8: on a success status call_gemini looks only at the first candidate
\* and returns the data and declared media type ("image/png" when none is
\* declared) of its first inline-image part; with no candidate or no such
\* part it returns a failure with a "no image" reason; and every result is
\* either a success (data, media type) or a failure (None, reason).
C8_FirstInlinePart ==
    (Returned /\ FirstRevision)
        => /\ (Parsed(LastAnswer) /\ HasInlineImage(LastAnswer))
                => result = << FirstInline(LastAnswer).data,
                               IF FirstInline(LastAnswer).mimeType = None
                               THEN "image/png"
                               ELSE FirstInline(LastAnswer).mimeType >>
           /\ (Parsed(LastAnswer) /\ ~HasInlineImage(LastAnswer))
                => /\ result[1] = None
                   /\ result[2] = IF Len(LastAnswer.candidates) = 0
                                  THEN "No response from API"
                                  ELSE "No image in response"
           /\ (result[1] = None) # (result[2] \in MediaTypes)
           /\ result[2] \notin { None, "" }

C8_Witness ==
    /\ Returned
    /\ FirstRevision
    /\ LastAnswer = OkJpeg
    /\ result = << "SlBFRw==", "image/jpeg" >>

\* the one answer call_gemini saw is a network fault or a malformed body
Faulted ==
    /\ Returned
    /\ FirstRevision
    /\ \/ LastAnswer.post_exc # None
       \/ (LastAnswer.status_code = 200 /\ LastAnswer.json_exc # None)

\* C9: a network failure of the upstream call or a malformed response does
\* not escape call_gemini: it returns a failure with a non-empty reason,
\* and the handler answers {error: reason} with status 500.
C9_FaultsBecomeFailures ==
    Faulted
        => /\ result[1] = None
           /\ result[2] \notin { None, "" }
           /\ pc = "done" => response = [status_code |-> 500,
                                         body |-> [error |-> result[2]]]

C9_Witness ==
    /\ pc = "done"
    /\ Faulted
    /\ LastAnswer = Timeout
    /\ response = [status_code |-> 500,
                   body |-> [error |-> "Request failed: Read timed out"]]

\* C10: a single-image handler answers a success result with {image, mime}
\* carrying the result's data and the media type the upstream declared, a
\* failure result with {error: reason} and status 500, and answers with
\* success exactly when the upstream returned an inline-image part.
C10_SingleImageResponse ==
    (pc = "done" /\ SingleImage /\ calls > 0)
        => /\ IsSuccess(result)
                => response = [status_code |-> 200,
                               body |-> [image |-> result[1],
                                         mime |-> result[2]]]
           /\ ~IsSuccess(result)
                => response = [status_code |-> 500,
                               body |-> [error |-> result[2]]]
           /\ (response.status_code = 200) <=> HasInlineImage(LastAnswer)
           /\ HasInlineImage(LastAnswer)
                => response.body.mime =
                      IF FirstInline(LastAnswer).mimeType = None
                      THEN "image/png" ELSE FirstInline(LastAnswer).mimeType

====
